---- MODULE Spec2Model ----
(***************************************************************************)
(* Task classification and dispatch of the voice assistant.                *)
(*                                                                         *)
(*   multiagent.py  ModelRouter.choose_model, MultiAgentAssistant          *)
(*                  (__init__, _check_available_models, process_query)     *)
(*                  MultiAgent (listen, speak, process_command, run)       *)
(*   main.py        MultiAgent.setup_models, MultiAgent.process_command,   *)
(*                  MultiAgent.listen, speak, run, cleanup                 *)
(*                                                                         *)
(* A text is a sequence of one-character strings, so that lower(),         *)
(* re.findall and the substring test `in` are computed character by        *)
(* character, as the interpreter computes them.                            *)
(***************************************************************************)
EXTENDS Integers, Sequences, FiniteSets, TLC

VARIABLES
    pc,               \* position of the program
    probe,            \* outcome of the GET /api/tags availability probe
    available_models, \* MultiAgentAssistant.available_models
    router_patterns,  \* self.router.task_patterns
    models,           \* self.models: role -> capability (an Ollama object)
    chains,           \* self.chains: role -> capability behind the LLMChain
    query,            \* text of the command being handled
    task_type,        \* category returned by choose_model
    model,            \* model returned by choose_model
    invoked,          \* model invocations of the current command, in order
    result,           \* what the current command returned or raised
    memo,             \* history: one earlier direct choose_model call
    clock,            \* int(time.time()), counted from the start
    scripts,          \* writes of generated_script_<n>.py, in order
    ncmd,             \* commands captured or handed to process_command so far
    command,          \* run: what listen returned
    events,           \* what the current listen or speak call did, in order
    audio_counter,    \* self.audio_counter
    audio_names,      \* the n of every speech_<n>.mp3 used, in order
    spoken,           \* the text of the current speak call
    calls,            \* run: calls made for the current command, in order
    cleanups          \* calls of cleanup

\* The files written and the time.
fileVars == <<clock, scripts, ncmd>>

\* The state of the run loops and of the speech calls.
runVars == <<command, events, audio_counter, audio_names, spoken, calls, cleanups>>

vars == <<pc, probe, available_models, router_patterns, models, chains, query, task_type,
          model, invoked, result, memo, fileVars, runVars>>

----------------------------------------------------------------------------
(* Bounds *)

\* Longest command, in words of Vocabulary.
MaxWords == 2

\* Commands of one session: calls of process_command, captures of run.
MaxCommands == 2

----------------------------------------------------------------------------
(* Texts *)

UpperCase ==
    <<"A", "B", "C", "D", "E", "F", "G", "H", "I", "J", "K", "L", "M",
      "N", "O", "P", "Q", "R", "S", "T", "U", "V", "W", "X", "Y", "Z">>

LowerCase ==
    <<"a", "b", "c", "d", "e", "f", "g", "h", "i", "j", "k", "l", "m",
      "n", "o", "p", "q", "r", "s", "t", "u", "v", "w", "x", "y", "z">>

\* str.lower() on one character.
LowerChar(c) ==
    IF \E i \in 1..Len(UpperCase) : UpperCase[i] = c
    THEN LowerCase[CHOOSE i \in 1..Len(UpperCase) : UpperCase[i] = c]
    ELSE c

\* str.lower()
lower(text) == [i \in 1..Len(text) |-> LowerChar(text[i])]

\* The words commands are made of: one keyword of each category, one word
\* with an upper-case letter, one word holding two code keywords, and one
\* word no pattern matches.
Vocabulary ==
    << <<"D", "e", "b", "u", "g">>,
       <<"e", "r", "r", "o", "r", "_", "c", "o", "d", "e">>,
       <<"h", "e", "l", "p">>,
       <<"w", "r", "i", "t", "e">>,
       <<"s", "t", "u", "d", "y">>,
       <<"h", "i">> >>

RECURSIVE Join(_)
\* The words ws (indices into Vocabulary) separated by single spaces.
Join(ws) ==
    IF Len(ws) = 0 THEN <<>>
    ELSE IF Len(ws) = 1 THEN Vocabulary[ws[1]]
    ELSE Vocabulary[ws[1]] \o <<" ">> \o Join(Tail(ws))

\* Every command text of at most MaxWords words; the empty text included.
Texts ==
    { Join(ws) : ws \in UNION { [1..n -> 1..Len(Vocabulary)] : n \in 0..MaxWords } }

----------------------------------------------------------------------------
(* ModelRouter *)

\* The keys of `scores`, in the insertion order of the dict literal.
Categories == <<"code", "chat", "creative", "analysis">>

CategorySet == { Categories[i] : i \in 1..Len(Categories) }

\* self.task_patterns: each pattern is one group of alternatives, in order.
task_patterns ==
    [ code |->
        << <<"c", "o", "d", "e">>,
           <<"p", "r", "o", "g", "r", "a", "m">>,
           <<"s", "c", "r", "i", "p", "t">>,
           <<"f", "u", "n", "c", "t", "i", "o", "n">>,
           <<"c", "l", "a", "s", "s">>,
           <<"b", "u", "g">>,
           <<"e", "r", "r", "o", "r">>,
           <<"d", "e", "b", "u", "g">>,
           <<"i", "m", "p", "l", "e", "m", "e", "n", "t">>,
           <<"d", "e", "v", "e", "l", "o", "p">> >>,
      chat |->
        << <<"c", "h", "a", "t">>,
           <<"t", "a", "l", "k">>,
           <<"s", "p", "e", "a", "k">>,
           <<"c", "o", "n", "v", "e", "r", "s", "e">>,
           <<"d", "i", "s", "c", "u", "s", "s">>,
           <<"e", "x", "p", "l", "a", "i", "n">>,
           <<"h", "e", "l", "p">>,
           <<"a", "s", "s", "i", "s", "t">> >>,
      creative |->
        << <<"s", "t", "o", "r", "y">>,
           <<"p", "o", "e", "m">>,
           <<"c", "r", "e", "a", "t", "i", "v", "e">>,
           <<"i", "m", "a", "g", "i", "n", "e">>,
           <<"g", "e", "n", "e", "r", "a", "t", "e">>,
           <<"w", "r", "i", "t", "e">>,
           <<"c", "o", "m", "p", "o", "s", "e">> >>,
      analysis |->
        << <<"a", "n", "a", "l", "y", "z", "e">>,
           <<"e", "x", "a", "m", "i", "n", "e">>,
           <<"i", "n", "v", "e", "s", "t", "i", "g", "a", "t", "e">>,
           <<"r", "e", "s", "e", "a", "r", "c", "h">>,
           <<"s", "t", "u", "d", "y">>,
           <<"e", "v", "a", "l", "u", "a", "t", "e">> >> ]

\* The literal word occurs in text, starting at position pos.
MatchAt(word, text, pos) ==
    /\ pos + Len(word) - 1 <= Len(text)
    /\ \A i \in 1..Len(word) : text[pos + i - 1] = word[i]

\* The alternative the regex engine takes at pos: the first one, in the
\* order of the pattern, that matches there; 0 when none does.
FirstAlternative(alts, text, pos) ==
    IF \E k \in 1..Len(alts) : MatchAt(alts[k], text, pos)
    THEN CHOOSE k \in 1..Len(alts) :
            /\ MatchAt(alts[k], text, pos)
            /\ \A j \in 1..(k - 1) : ~MatchAt(alts[j], text, pos)
    ELSE 0

RECURSIVE findall(_, _, _)
\* len(re.findall(pattern, text)) from position pos on: the matches are
\* found left to right and do not overlap.
findall(alts, text, pos) ==
    IF pos > Len(text) THEN 0
    ELSE LET k == FirstAlternative(alts, text, pos)
         IN  IF k = 0 THEN findall(alts, text, pos + 1)
             ELSE 1 + findall(alts, text, pos + Len(alts[k]))

\* The dict `scores` of choose_model for one query.
scores(q) ==
    [c \in CategorySet |-> findall(task_patterns[c], lower(q), 1)]

\* scores, tabulated over the commands of the model.
ScoreTable == [t \in Texts |-> scores(t)]

\* max(scores.values())
MaxScore(s) == CHOOSE m \in { s[c] : c \in CategorySet } : \A c \in CategorySet : s[c] <= m

\* A tie-break that depends on the preceding call: the first maximal key,
\* unless that is what the preceding call returned and another key is
\* maximal too.
max_item_alternating(s) ==
    LET tied  == { i \in 1..Len(Categories) : s[Categories[i]] = MaxScore(s) }
        first == CHOOSE i \in tied : \A j \in tied : i <= j
        rest  == tied \ {first}
    IN  IF Categories[first] = task_type /\ rest # {}
        THEN Categories[CHOOSE i \in rest : \A j \in rest : i <= j]
        ELSE Categories[first]

\* max(scores.items(), key=lambda x: x[1])[0]: max() keeps the first maximal
\* item it meets, and a dict iterates in insertion order.
max_item(s) ==
    LET i == CHOOSE i \in 1..Len(Categories) :
                /\ s[Categories[i]] = MaxScore(s)
                /\ \A j \in 1..(i - 1) : s[Categories[j]] < MaxScore(s)
    IN  Categories[i]

\* model_mapping with creative sent to the code model.
model_mapping_creative_code ==
    [code |-> "code", chat |-> "chat", creative |-> "code", analysis |-> "chat"]

\* model_mapping with analysis sent to the code model.
model_mapping_analysis_code ==
    [code |-> "code", chat |-> "chat", creative |-> "chat", analysis |-> "code"]

\* model_mapping of choose_model.
model_mapping ==
    [code |-> "code", chat |-> "chat", creative |-> "chat", analysis |-> "chat"]

\* choose_model without the early return for an all-zero score.
choose_model_no_default(q) ==
    LET s == ScoreTable[q]
    IN  [task_type |-> max_item(s), model |-> models[model_mapping[max_item(s)]]]

\* ModelRouter.choose_model: the pair (model_type, model) it returns.
choose_model(q) ==
    LET s == ScoreTable[q]
    IN  IF MaxScore(s) = 0
        THEN [task_type |-> "chat", model |-> models["chat"]]
        ELSE [task_type |-> max_item(s), model |-> models[model_mapping[max_item(s)]]]

----------------------------------------------------------------------------
(* MultiAgentAssistant construction *)

MISTRAL == "mistral:7b-instruct-q4_K_M"
NEURAL_CHAT == "neural-chat:7b-v3.3-q4_K_M"
LLAMA2 == "llama2:7b-chat-q4_K_M"
CODELLAMA == "codellama:7b-instruct-q4_K_M"

\* The model names the server may list.
ModelNames == {MISTRAL, NEURAL_CHAT, LLAMA2, CODELLAMA}

Unbound == "none"

NoModels == [chat |-> Unbound, code |-> Unbound]

\* What the probe of the server can come to: a 200 answer listing some
\* models, another status, or an exception of requests.get.
Probes ==
    [kind : {"ok"}, names : SUBSET ModelNames]
        \cup [kind : {"bad_status", "exception"}, names : {{}}]

\* MultiAgentAssistant._check_available_models
check_available_models(p) ==
    IF p.kind = "ok" THEN p.names ELSE {}

\* The chat model chosen with llama2 as the last resort whatever the list.
chat_model_never_raises(avail) ==
    IF MISTRAL \in avail THEN MISTRAL
    ELSE IF NEURAL_CHAT \in avail THEN NEURAL_CHAT
    ELSE LLAMA2

\* The if/elif chain that binds models['chat']; Unbound stands for the
\* RuntimeError of its else branch.
chat_model(avail) ==
    IF MISTRAL \in avail THEN MISTRAL
    ELSE IF NEURAL_CHAT \in avail THEN NEURAL_CHAT
    ELSE IF LLAMA2 \in avail THEN LLAMA2
    ELSE Unbound

\* The code role left without a model when codellama is not listed.
code_model_no_downgrade(avail, chat) ==
    IF CODELLAMA \in avail THEN CODELLAMA ELSE Unbound

\* The if/else that binds models['code'].
code_model(avail, chat) ==
    IF CODELLAMA \in avail THEN CODELLAMA ELSE chat

\* No router has been constructed.
NoPatterns == [c \in CategorySet |-> <<>>]

\* MultiAgentAssistant.__init__: the probe, the role bindings, the router
\* and the chains; or the RuntimeError, which leaves no assistant.
Construct ==
    /\ pc = "start"
    /\ \E p \in Probes :
        LET avail == check_available_models(p)
            chat  == chat_model(avail)
            code  == code_model(avail, chat)
        IN  /\ probe' = p.kind
            /\ available_models' = avail
            /\ IF chat = Unbound
               THEN /\ pc' = "init_failed"
                    /\ UNCHANGED <<router_patterns, models, chains>>
               ELSE /\ pc' = "idle"
                    /\ models' = [chat |-> chat, code |-> code]
                    /\ router_patterns' = task_patterns
                    /\ chains' = [chat |-> chat, code |-> code]
    /\ UNCHANGED <<query, task_type, model, invoked, result, memo>>
    /\ UNCHANGED <<fileVars, runVars>>

----------------------------------------------------------------------------
(* MultiAgentAssistant.process_query *)

\* No script is named.
NoScript == -1

NoResult ==
    [kind |-> "none", cap |-> Unbound, attempt |-> 0, msg |-> "", script |-> NoScript]

\* A result that is the response of the attempt-th invocation, made on cap.
Response(cap, attempt) ==
    [kind |-> "response", cap |-> cap, attempt |-> attempt, msg |-> "",
     script |-> NoScript]

\* An exception that leaves the call.
Raised(cap, attempt) ==
    [kind |-> "raised", cap |-> cap, attempt |-> attempt, msg |-> "",
     script |-> NoScript]

\* A fixed user-facing string returned in place of a response.
Message(m) ==
    [kind |-> "message", cap |-> Unbound, attempt |-> 0, msg |-> m,
     script |-> NoScript]

\* chains.get with the code chain as its default.
chain_for_code_default(t) ==
    IF t \in {"chat", "code"} THEN chains[t] ELSE chains["code"]

\* self.chains.get(task_type, self.chains['chat']): the model behind it.
chain_for(t) ==
    IF t \in {"chat", "code"} THEN chains[t] ELSE chains["chat"]

\* process_query up to its first await: the router's decision is taken.
ProcessQuery ==
    /\ pc = "idle"
    /\ \E q \in Texts :
        LET r == choose_model(q)
        IN  /\ query' = q
            /\ task_type' = r.task_type
            /\ model' = r.model
    /\ invoked' = <<>>
    /\ result' = NoResult
    /\ pc' = "chain_run"
    /\ UNCHANGED <<probe, available_models, router_patterns, models, chains, memo>>
    /\ UNCHANGED <<fileVars, runVars>>

\* await chain.arun(query=query) in the try block: the response is
\* returned; on an exception the handler falls back when task_type is not
\* 'chat' and re-raises otherwise.
ChainRun ==
    /\ pc = "chain_run"
    /\ \E ok \in BOOLEAN :
        /\ invoked' = Append(invoked, [cap |-> chain_for(task_type), ok |-> ok])
        /\ IF ok
           THEN /\ result' = Response(chain_for(task_type), Len(invoked) + 1)
                /\ pc' = "returned"
           ELSE IF task_type # "chat"
           THEN /\ result' = result
                /\ pc' = "fallback_run"
           ELSE /\ result' = Raised(chain_for(task_type), Len(invoked) + 1)
                /\ pc' = "raised"
    /\ UNCHANGED <<probe, available_models, router_patterns, models, chains, query, task_type,
                   model, memo>>
    /\ UNCHANGED <<fileVars, runVars>>

\* return await self.chains['chat'].arun(query=query) in the handler: an
\* exception of this call leaves process_query.
FallbackRun ==
    /\ pc = "fallback_run"
    /\ \E ok \in BOOLEAN :
        /\ invoked' = Append(invoked, [cap |-> chains["chat"], ok |-> ok])
        /\ IF ok
           THEN /\ result' = Response(chains["chat"], Len(invoked) + 1)
                /\ pc' = "returned"
           ELSE /\ result' = Raised(chains["chat"], Len(invoked) + 1)
                /\ pc' = "raised"
    /\ UNCHANGED <<probe, available_models, router_patterns, models, chains, query, task_type,
                   model, memo>>
    /\ UNCHANGED <<fileVars, runVars>>

\* The caller has the outcome; the locals of the call are gone.
QueryDone ==
    /\ pc \in {"returned", "raised"}
    /\ pc' = "idle"
    /\ query' = <<>>
    /\ task_type' = "none"
    /\ model' = Unbound
    /\ invoked' = <<>>
    /\ result' = NoResult
    /\ UNCHANGED <<probe, available_models, router_patterns, models, chains, memo>>
    /\ UNCHANGED <<fileVars, runVars>>

----------------------------------------------------------------------------
(* main.py MultiAgent *)

\* code_keywords of process_command.
code_keywords ==
    << <<"c", "o", "d", "e">>,
       <<"p", "r", "o", "g", "r", "a", "m">>,
       <<"s", "c", "r", "i", "p", "t">>,
       <<"f", "u", "n", "c", "t", "i", "o", "n">>,
       <<"d", "e", "b", "u", "g">>,
       <<"r", "u", "n">>,
       <<"e", "x", "e", "c", "u", "t", "e">>,
       <<"w", "r", "i", "t", "e">>,
       <<"c", "r", "e", "a", "t", "e">> >>

\* keyword in text
Contains(keyword, text) ==
    \E pos \in 1..Len(text) : MatchAt(keyword, text, pos)

\* The keyword test without lower().
is_code_query_case_sensitive(c) ==
    \E k \in 1..Len(code_keywords) : Contains(code_keywords[k], c)

\* any(keyword in command.lower() for keyword in code_keywords)
is_code_query(c) ==
    \E k \in 1..Len(code_keywords) : Contains(code_keywords[k], lower(c))

\* setup_models, with CHAT_MODEL and CODING_MODEL unset: two Ollama objects.
SetupModels ==
    /\ pc = "start"
    /\ models' = [chat |-> NEURAL_CHAT, code |-> CODELLAMA]
    /\ pc' = "main_idle"
    /\ UNCHANGED <<probe, available_models, router_patterns, chains, query, task_type, model,
                   invoked, result, memo>>
    /\ UNCHANGED <<fileVars, runVars>>

\* process_command(c) up to its model call: an empty command is answered
\* at once, any other is sent down the code or the chat branch.
EnterProcessCommand(c) ==
    /\ query' = c
    /\ IF c = <<>>
       THEN /\ result' = Message("didnt_catch")
            /\ pc' = "main_returned"
       ELSE /\ result' = NoResult
            /\ pc' = IF is_code_query(c) THEN "main_code" ELSE "main_chat"
    /\ invoked' = <<>>

\* process_command called on its own.
ProcessCommand ==
    /\ pc = "main_idle"
    /\ ncmd < MaxCommands
    /\ ncmd' = ncmd + 1
    /\ \E c \in Texts : EnterProcessCommand(c)
    /\ UNCHANGED <<probe, available_models, router_patterns, models, chains, task_type, model, memo>>
    /\ UNCHANGED <<clock, scripts, runVars>>

\* What the code branch can meet: the invocation fails; the response has no
\* ```python fence; it has the fence but no complete block; it has a block
\* and the script is written; it has a block and open() or write() fails.
CodeOutcomes ==
    {"invoke_failed", "plain", "fence_no_block", "block_saved", "block_write_failed"}

\* code_response as the branch tells responses apart: "none" when invoke
\* raised, "plain" without the fence, "fence" with the fence but no complete
\* block for the regular expression, "block" with at least one block.
code_response(o) ==
    CASE o = "invoke_failed" -> "none"
      [] o = "plain" -> "plain"
      [] o = "fence_no_block" -> "fence"
      [] OTHER -> "block"

\* The script is written for a response with the fence, whether or not the
\* regular expression finds a block in it.
writes_script_on_fence(o) ==
    o \in {"fence_no_block", "block_saved", "block_write_failed"}

\* if '```python' in code_response, and then if code_blocks: the responses
\* for which open(script_name, 'w') is called.
writes_script(o) == o \in {"block_saved", "block_write_failed"}

\* The name told to the user is taken from a second reading of the clock.
told_script_name_reread(name) == name + 1

\* The n of generated_script_<n>.py in the text returned: script_name.
told_script_name(name) == name

\* The code branch: self.models['code'].invoke(code_prompt), during which
\* the clock may tick; the extraction of the first python block into
\* generated_script_<int(time.time())>.py; and the except clause that
\* answers any exception of the branch with the fixed message.
CodeInvoke ==
    /\ pc = "main_code"
    /\ \E o \in CodeOutcomes, d \in 0..1 :
        /\ clock' = clock + d
        /\ invoked' = Append(invoked, [cap |-> models["code"],
                                       ok |-> o # "invoke_failed",
                                       resp |-> code_response(o)])
        /\ scripts' =
             IF writes_script(o)
             THEN Append(scripts, [name |-> clock + d, cmd |-> ncmd, block |-> 1,
                                   ok |-> o # "block_write_failed"])
             ELSE scripts
        /\ result' =
             CASE o \in {"plain", "fence_no_block"} ->
                    Response(models["code"], Len(invoked) + 1)
               [] o = "block_saved" ->
                    [Response(models["code"], Len(invoked) + 1)
                        EXCEPT !.msg = "saved_script",
                               !.script = told_script_name(clock + d)]
               [] OTHER -> Message("code_error")
    /\ pc' = "main_returned"
    /\ UNCHANGED <<probe, available_models, router_patterns, models, chains, query, task_type,
                   model, memo>>
    /\ UNCHANGED <<ncmd, runVars>>

\* The chat branch: self.models['chat'].invoke(enhanced_prompt).
ChatInvoke ==
    /\ pc = "main_chat"
    /\ \E ok \in BOOLEAN :
        /\ invoked' = Append(invoked, [cap |-> models["chat"], ok |-> ok])
        /\ IF ok
           THEN /\ result' = Response(models["chat"], Len(invoked) + 1)
                /\ pc' = "main_returned"
           ELSE /\ result' = result
                /\ pc' = "main_chat_fallback"
    /\ UNCHANGED <<probe, available_models, router_patterns, models, chains, query, task_type,
                   model, memo>>
    /\ UNCHANGED <<fileVars, runVars>>

\* The "simple fallback" of the chat branch, self.models['chat'].invoke(command);
\* its exception is answered by the outer except clause.
ChatFallback ==
    /\ pc = "main_chat_fallback"
    /\ \E ok \in BOOLEAN :
        /\ invoked' = Append(invoked, [cap |-> models["chat"], ok |-> ok])
        /\ result' = IF ok THEN Response(models["chat"], Len(invoked) + 1)
                     ELSE Message("processing_error")
    /\ pc' = "main_returned"
    /\ UNCHANGED <<probe, available_models, router_patterns, models, chains, query, task_type,
                   model, memo>>
    /\ UNCHANGED <<fileVars, runVars>>

\* process_command, called on its own, has returned; its locals are gone.
CommandDone ==
    /\ pc = "main_returned"
    /\ calls = <<>>
    /\ pc' = "main_idle"
    /\ query' = <<>>
    /\ invoked' = <<>>
    /\ result' = NoResult
    /\ UNCHANGED <<probe, available_models, router_patterns, models, chains, task_type, model, memo>>
    /\ UNCHANGED <<fileVars, runVars>>

----------------------------------------------------------------------------
(* main.py MultiAgent.listen and MultiAgent.speak *)

\* run has no command; listen returned None.
NoCommand == [none |-> TRUE, text |-> <<>>]

\* No speak call is under way.
NoSpeech == [what |-> "none", chars |-> <<>>, res |-> NoResult]

\* One step of a listen or speak call, as the call's log keeps it.
Ev(kind) == [kind |-> kind, lang |-> "none", file |-> 0]

\* The attempts of the call so far: range(max_retries) has gone this far.
Attempts(evs) ==
    Cardinality({ i \in DOMAIN evs : evs[i].kind \notin {"print", "sleep"} })

\* max_retries = 3 of listen.
listen_max_retries == 3

\* WaitTimeoutError, UnknownValueError, RequestError, and any other Exception
\* of the capture or of the three recognitions.
CaptureFailures == {"no_speech", "unintelligible", "request_error", "other_error"}

\* recognize_google(audio) returned, or one of its en-US / fa-IR repetitions.
CaptureSuccesses == {"recognized", "recognized_fallback"}

\* What the recognizer can hand to run: nothing, single words, and texts with
\* an exit phrase in them, in either case and next to a code keyword.
Commands ==
    {<<>>}
      \cup { <<w>> : w \in {"hi", "write"} }
      \cup { <<"e", "x", "i", "t">>,
             <<"Q", "u", "i", "t">>,
             <<"w", "r", "i", "t", "e", " ", "e", "x", "i", "t">> }

\* The delay follows every failed attempt, the last one too.
listen_sleeps_always(attempt) == TRUE

\* if attempt < max_retries - 1: time.sleep(1)
listen_sleeps(attempt) == attempt < listen_max_retries - 1

\* One turn of the for loop of listen: the capture and its recognition, the
\* except clauses, the delay, and return None when the range is used up.
ListenAttempt ==
    /\ pc = "listen"
    /\ LET attempt == Attempts(events)
       IN  \/ \E text \in Commands, how \in CaptureSuccesses :
                /\ command' = [none |-> FALSE, text |-> text]
                /\ events' = Append(events, Ev(how))
                /\ clock' = clock
                /\ pc' = "listened"
           \/ \E f \in CaptureFailures :
                /\ events' = events \o <<Ev(f)>>
                               \o (IF listen_sleeps(attempt) THEN <<Ev("sleep")>> ELSE <<>>)
                /\ clock' = clock + (IF listen_sleeps(attempt) THEN 1 ELSE 0)
                /\ command' = NoCommand
                /\ pc' = IF attempt + 1 < listen_max_retries THEN "listen" ELSE "listened"
    /\ UNCHANGED <<probe, available_models, router_patterns, models, chains, query, task_type,
                   model, invoked, result, memo>>
    /\ UNCHANGED <<scripts, ncmd, audio_counter, audio_names, spoken, calls, cleanups>>

\* How long a spoken text the model tells apart.
MaxSpeakLen == 2

\* An ASCII letter and a Persian letter, as code points.
SpeakAlphabet == {97, 1587}

\* The texts a model can answer with, the empty one included.
SpeakTexts == UNION { [1..n -> SpeakAlphabet] : n \in 0..MaxSpeakLen }

\* The fixed texts of the two programs, as code points.
FixedChars ==
    [ greeting |->
    <<
            72, 101, 108, 108, 111, 33, 32, 73, 39, 109, 32, 121, 111, 117,
            114, 32, 65, 73, 32, 97, 115, 115, 105, 115, 116, 97, 110, 116, 46,
            32, 73, 32, 99, 97, 110, 32, 104, 101, 108, 112, 32, 121, 111, 117,
            32, 119, 105, 116, 104, 32, 103, 101, 110, 101, 114, 97, 108, 32,
            113, 117, 101, 115, 116, 105, 111, 110, 115, 44, 32, 105, 110, 116,
            101, 114, 110, 101, 116, 32, 115, 101, 97, 114, 99, 104, 101, 115,
            44, 32, 97, 110, 100, 32, 99, 111, 100, 101, 45, 114, 101, 108, 97,
            116, 101, 100, 32, 116, 97, 115, 107, 115, 46, 32, 72, 111, 119,
            32, 99, 97, 110, 32, 73, 32, 104, 101, 108, 112, 32, 121, 111, 117,
            63 >>,
      farewell |->
    <<
            71, 111, 111, 100, 98, 121, 101, 33 >>,
      didnt_catch |->
    <<
            73, 32, 100, 105, 100, 110, 39, 116, 32, 99, 97, 116, 99, 104, 32,
            116, 104, 97, 116, 46, 32, 67, 111, 117, 108, 100, 32, 121, 111,
            117, 32, 112, 108, 101, 97, 115, 101, 32, 116, 114, 121, 32, 97,
            103, 97, 105, 110, 63 >>,
      code_error |->
    <<
            84, 104, 101, 114, 101, 32, 119, 97, 115, 32, 97, 110, 32, 101,
            114, 114, 111, 114, 32, 103, 101, 110, 101, 114, 97, 116, 105, 110,
            103, 32, 116, 104, 101, 32, 99, 111, 100, 101, 46, 32, 80, 108,
            101, 97, 115, 101, 32, 116, 114, 121, 32, 114, 101, 112, 104, 114,
            97, 115, 105, 110, 103, 32, 121, 111, 117, 114, 32, 114, 101, 113,
            117, 101, 115, 116, 46 >>,
      processing_error |->
    <<
            73, 32, 101, 110, 99, 111, 117, 110, 116, 101, 114, 101, 100, 32,
            97, 110, 32, 101, 114, 114, 111, 114, 32, 112, 114, 111, 99, 101,
            115, 115, 105, 110, 103, 32, 116, 104, 97, 116, 32, 99, 111, 109,
            109, 97, 110, 100, 46, 32, 67, 111, 117, 108, 100, 32, 121, 111,
            117, 32, 116, 114, 121, 32, 114, 101, 112, 104, 114, 97, 115, 105,
            110, 103, 32, 105, 116, 63 >>,
      saved_suffix |->
    <<
            10, 10, 73, 39, 118, 101, 32, 115, 97, 118, 101, 100, 32, 116, 104,
            101, 32, 99, 111, 100, 101, 32, 116, 111, 32, 103, 101, 110, 101,
            114, 97, 116, 101, 100, 95, 115, 99, 114, 105, 112, 116, 95 >>,
      simple_greeting |->
    <<
            72, 101, 108, 108, 111, 33, 32, 73, 39, 109, 32, 121, 111, 117,
            114, 32, 65, 73, 32, 97, 115, 115, 105, 115, 116, 97, 110, 116, 46,
            32, 72, 111, 119, 32, 99, 97, 110, 32, 73, 32, 104, 101, 108, 112,
            32, 121, 111, 117, 63 >>,
      sorry |->
    <<
            83, 111, 114, 114, 121, 44, 32, 73, 32, 99, 111, 117, 108, 100,
            110, 39, 116, 32, 112, 114, 111, 99, 101, 115, 115, 32, 116, 104,
            97, 116, 32, 99, 111, 109, 109, 97, 110, 100, 46 >> ]

\* The text of a result of process_command, whose model response is body.
ResponseChars(r, body) ==
    CASE r.kind = "message" -> FixedChars[r.msg]
      [] r.msg = "saved_script" -> body \o FixedChars["saved_suffix"]
      [] OTHER -> body

\* lang = 'en' if any(ord(c) < 128 for c in text) else 'fa'
tts_lang(chars) == IF \E i \in DOMAIN chars : chars[i] < 128 THEN "en" ELSE "fa"

\* max_retries = 3 of speak.
speak_max_retries == 3

\* speak leaves its loop only when the range is used up.
speak_done_when_exhausted(ok, attempt) == attempt + 1 >= 3

\* return after playsound, or the end of range(max_retries).
speak_done(ok, attempt) == ok \/ attempt + 1 >= speak_max_retries

\* speak(text) is entered: print(f"\nAI: {text}").
SpeakBegin(what, chars, res) ==
    /\ spoken' = [what |-> what, chars |-> chars, res |-> res]
    /\ events' = <<Ev("print")>>
    /\ pc' = "speak"

\* One turn of the for loop of speak: the locale, the next speech_<n>.mp3,
\* gTTS and playsound, and the except clause with its delay.
SpeakAttempt ==
    /\ pc = "speak"
    /\ LET attempt == Attempts(events)
           file == audio_counter + 1
       IN  /\ audio_counter' = file
           /\ audio_names' = Append(audio_names, file)
           /\ \E ok \in BOOLEAN :
                /\ events' =
                     IF ok
                     THEN Append(events, [kind |-> "synth_ok",
                                          lang |-> tts_lang(spoken.chars),
                                          file |-> file])
                     ELSE events
                            \o << [kind |-> "synth_failed",
                                   lang |-> tts_lang(spoken.chars),
                                   file |-> file] >>
                            \o (IF attempt # speak_max_retries - 1
                                THEN <<Ev("sleep")>> ELSE <<>>)
                /\ clock' = clock + (IF ~ok /\ attempt # speak_max_retries - 1
                                     THEN 1 ELSE 0)
                /\ pc' = IF speak_done(ok, attempt) THEN "spoke" ELSE "speak"
    /\ UNCHANGED <<probe, available_models, router_patterns, models, chains, query, task_type,
                   model, invoked, result, memo>>
    /\ UNCHANGED <<scripts, ncmd, command, spoken, calls, cleanups>>

----------------------------------------------------------------------------
(* main.py MultiAgent.run and MultiAgent.cleanup *)

\* "exit" in command.lower() or "quit" in command.lower()
is_exit(c) ==
    \/ Contains(<<"e", "x", "i", "t">>, lower(c))
    \/ Contains(<<"q", "u", "i", "t">>, lower(c))

\* The exit test is missing: an exit command is processed like any other.
run_branch_no_exit(cmd) ==
    IF cmd.none \/ cmd.text = <<>> THEN "retry" ELSE "process"

\* Every command that is not an exit command is told to be spoken again.
run_branch_never_processes(cmd) ==
    IF cmd.none \/ cmd.text = <<>> THEN "retry"
    ELSE IF is_exit(cmd.text) THEN "exit"
    ELSE "retry"

\* An empty or missing command is handed to process_command as well.
run_branch_processes_empty(cmd) ==
    IF ~cmd.none /\ is_exit(cmd.text) THEN "exit" ELSE "process"

\* The if / else of the loop body: `if command:`, then the exit test.
run_branch(cmd) ==
    IF cmd.none \/ cmd.text = <<>> THEN "retry"
    ELSE IF is_exit(cmd.text) THEN "exit"
    ELSE "process"

\* cleanup is called only when the loop was left by its break.
run_end_no_finally(how) == IF how = "exit" THEN "cleanup" ELSE "run_done"

\* finally: self.cleanup(), whichever way the try block was left.
run_end(how) == "cleanup"

\* run() is called on the agent: the greeting is spoken inside the try.
RunStart ==
    /\ pc = "main_idle"
    /\ calls' = <<"speak_greeting">>
    /\ SpeakBegin("greeting", FixedChars["greeting"], NoResult)
    /\ UNCHANGED <<probe, available_models, router_patterns, models, chains, query, task_type,
                   model, invoked, result, memo>>
    /\ UNCHANGED <<fileVars, command, audio_counter, audio_names, cleanups>>

\* The top of while True: command = self.listen().  What the last turn of
\* the loop left behind is gone.
RunListen ==
    /\ pc = "run_loop"
    /\ ncmd < MaxCommands
    /\ ncmd' = ncmd + 1
    /\ pc' = "listen"
    /\ command' = NoCommand
    /\ events' = <<>>
    /\ calls' = <<>>
    /\ spoken' = NoSpeech
    /\ query' = <<>>
    /\ invoked' = <<>>
    /\ result' = NoResult
    /\ UNCHANGED <<probe, available_models, router_patterns, models, chains, task_type, model, memo>>
    /\ UNCHANGED <<clock, scripts, audio_counter, audio_names, cleanups>>

\* listen has returned: the body of the loop up to its first call.
RunDispatch ==
    /\ pc = "listened"
    /\ CASE run_branch(command) = "retry" ->
              /\ calls' = Append(calls, "print_retry")
              /\ pc' = "run_loop"
              /\ UNCHANGED <<query, invoked, result, spoken, events>>
         [] run_branch(command) = "exit" ->
              /\ calls' = Append(calls, "speak_farewell")
              /\ SpeakBegin("farewell", FixedChars["farewell"], NoResult)
              /\ UNCHANGED <<query, invoked, result>>
         [] OTHER ->
              /\ calls' = Append(calls, "process_command")
              /\ EnterProcessCommand(command.text)
              /\ UNCHANGED <<spoken, events>>
    /\ UNCHANGED <<probe, available_models, router_patterns, models, chains, task_type, model, memo>>
    /\ UNCHANGED <<fileVars, command, audio_counter, audio_names, cleanups>>

\* response = self.process_command(command) has returned inside run:
\* self.speak(response).
RunSpeakResponse ==
    /\ pc = "main_returned"
    /\ calls # <<>>
    /\ calls' = Append(calls, "speak")
    /\ \E body \in SpeakTexts :
         SpeakBegin("response", ResponseChars(result, body), result)
    /\ UNCHANGED <<probe, available_models, router_patterns, models, chains, query, task_type,
                   model, invoked, result, memo>>
    /\ UNCHANGED <<fileVars, command, audio_counter, audio_names, cleanups>>

\* speak has returned to run: break after the farewell, else the next turn.
SpokeReturn ==
    /\ pc = "spoke"
    /\ pc' = IF spoken.what = "farewell" THEN run_end("exit") ELSE "run_loop"
    /\ UNCHANGED <<probe, available_models, router_patterns, models, chains, query, task_type,
                   model, invoked, result, memo>>
    /\ UNCHANGED <<fileVars, runVars>>

\* The places of run's try block.
InRun ==
    \/ pc \in {"run_loop", "listen", "listened", "speak", "spoke"}
    \/ pc \in {"main_code", "main_chat", "main_chat_fallback", "main_returned"}
         /\ calls # <<>>

\* except KeyboardInterrupt: the interrupt ends whatever call is under way.
Interrupt ==
    /\ InRun
    /\ pc' = run_end("interrupt")
    /\ calls' = <<"interrupt">>
    /\ command' = NoCommand
    /\ events' = <<>>
    /\ spoken' = NoSpeech
    /\ query' = <<>>
    /\ invoked' = <<>>
    /\ result' = NoResult
    /\ UNCHANGED <<probe, available_models, router_patterns, models, chains, task_type, model, memo>>
    /\ UNCHANGED <<fileVars, audio_counter, audio_names, cleanups>>

\* except Exception: a print that run makes outside the try blocks of its
\* callees raises (the text channel is closed or cannot encode the text):
\* the one of the else branch, or the one speak begins with.
RunError ==
    /\ \/ pc = "listened" /\ run_branch(command) \in {"retry", "exit"}
       \/ pc = "main_returned" /\ calls # <<>>
    /\ pc' = run_end("error")
    /\ calls' = <<"runtime_error">>
    /\ command' = NoCommand
    /\ events' = <<>>
    /\ spoken' = NoSpeech
    /\ query' = <<>>
    /\ invoked' = <<>>
    /\ result' = NoResult
    /\ UNCHANGED <<probe, available_models, router_patterns, models, chains,
                   task_type, model, memo>>
    /\ UNCHANGED <<fileVars, audio_counter, audio_names, cleanups>>

\* How a call of cleanup can go: to its end; into its except clause, which
\* logs the exception of rmtree, reset or clear; or under a KeyboardInterrupt
\* of its own, which is no Exception and leaves cleanup and run.
CleanupOutcomes == {"cleanup", "cleanup_error", "cleanup_interrupted"}

\* self.cleanup() of the finally clause.
Cleanup ==
    /\ pc = "cleanup"
    /\ cleanups' = cleanups + 1
    /\ \E o \in CleanupOutcomes :
         /\ calls' = Append(calls, o)
         /\ pc' = IF o = "cleanup_interrupted" THEN "run_interrupted" ELSE "run_done"
    /\ UNCHANGED <<probe, available_models, router_patterns, models, chains, query, task_type,
                   model, invoked, result, memo>>
    /\ UNCHANGED <<fileVars, command, events, audio_counter, audio_names, spoken>>

----------------------------------------------------------------------------
(* multiagent.py MultiAgent *)

\* "model": "codellama" of process_command.
SIMPLE_MODEL == "codellama"

\* "exit" in command.lower()
simple_is_exit(c) == Contains(<<"e", "x", "i", "t">>, lower(c))

\* MultiAgent() and run(): speak("Hello! ...") before the loop.
SimpleRunStart ==
    /\ pc = "start"
    /\ calls' = <<"speak_greeting">>
    /\ spoken' = [what |-> "greeting", chars |-> FixedChars["simple_greeting"],
                  res |-> NoResult]
    /\ events' = <<>>
    /\ pc' = "sa_speak"
    /\ UNCHANGED <<probe, available_models, router_patterns, models, chains, query, task_type,
                   model, invoked, result, memo>>
    /\ UNCHANGED <<fileVars, command, audio_counter, audio_names, cleanups>>

\* speak: print, engine.say, engine.runAndWait; an exception of the engine
\* leaves speak and run.
SimpleSpeak ==
    /\ pc = "sa_speak"
    /\ \E ok \in BOOLEAN :
         /\ events' = <<Ev("print"), Ev(IF ok THEN "said" ELSE "say_raised")>>
         /\ pc' = IF ~ok THEN "sa_crashed"
                  ELSE IF spoken.what = "farewell" THEN "sa_done"
                  ELSE "sa_loop"
    /\ UNCHANGED <<probe, available_models, router_patterns, models, chains, query, task_type,
                   model, invoked, result, memo>>
    /\ UNCHANGED <<fileVars, command, audio_counter, audio_names, spoken, calls,
                   cleanups>>

\* command = self.listen(): the capture is outside the try and its exception
\* leaves listen and run; an exception of the recognition gives None.
SimpleListen ==
    /\ pc = "sa_loop"
    /\ ncmd < MaxCommands
    /\ ncmd' = ncmd + 1
    /\ calls' = <<>>
    /\ spoken' = NoSpeech
    /\ query' = <<>>
    /\ invoked' = <<>>
    /\ result' = NoResult
    /\ \/ \E text \in Commands :
            /\ command' = [none |-> FALSE, text |-> text]
            /\ events' = <<Ev("recognized")>>
            /\ pc' = "sa_listened"
       \/ /\ command' = NoCommand
          /\ events' = <<Ev("unintelligible")>>
          /\ pc' = "sa_listened"
       \/ /\ command' = NoCommand
          /\ events' = <<Ev("capture_raised")>>
          /\ pc' = "sa_crashed"
    /\ UNCHANGED <<probe, available_models, router_patterns, models, chains, task_type, model, memo>>
    /\ UNCHANGED <<clock, scripts, audio_counter, audio_names, cleanups>>

\* The body of the loop after listen: `if command:`, the exit test, and the
\* call of process_command.
SimpleDispatch ==
    /\ pc = "sa_listened"
    /\ IF command.none \/ command.text = <<>>
       THEN /\ pc' = "sa_loop"
            /\ UNCHANGED <<calls, spoken, query>>
       ELSE IF simple_is_exit(command.text)
       THEN /\ calls' = Append(calls, "speak_farewell")
            /\ spoken' = [what |-> "farewell", chars |-> FixedChars["farewell"],
                          res |-> NoResult]
            /\ pc' = "sa_speak"
            /\ UNCHANGED query
       ELSE /\ calls' = Append(calls, "process_command")
            /\ query' = command.text
            /\ pc' = "sa_post"
            /\ UNCHANGED spoken
    /\ UNCHANGED <<probe, available_models, router_patterns, models, chains, task_type, model,
                   invoked, result, memo>>
    /\ UNCHANGED <<fileVars, command, events, audio_counter, audio_names, cleanups>>

\* process_command: requests.post, outside any try, and the status test;
\* then self.speak(response) of run.
SimplePost ==
    /\ pc = "sa_post"
    /\ \E o \in {"ok", "bad_status", "raised"} :
         /\ invoked' = Append(invoked, [cap |-> SIMPLE_MODEL, ok |-> o = "ok"])
         /\ result' = CASE o = "ok" -> Response(SIMPLE_MODEL, 1)
                        [] o = "bad_status" -> Message("sorry")
                        [] OTHER -> Raised(SIMPLE_MODEL, 1)
         /\ IF o = "raised"
            THEN /\ pc' = "sa_crashed"
                 /\ UNCHANGED <<calls, spoken>>
            ELSE /\ pc' = "sa_speak"
                 /\ calls' = Append(calls, "speak")
                 /\ \E body \in SpeakTexts :
                      spoken' = [what |-> "response",
                                 chars |-> ResponseChars(result', body),
                                 res |-> result']
    /\ UNCHANGED <<probe, available_models, router_patterns, models, chains, query, task_type,
                   model, memo>>
    /\ UNCHANGED <<fileVars, command, events, audio_counter, audio_names, cleanups>>

----------------------------------------------------------------------------
(* Direct calls of the router *)

\* How many later calls the history tells apart.
MaxCallsApart == 2

NoMemo == [set |-> FALSE, text |-> <<>>, task_type |-> "none", age |-> 0]

\* The creative and analysis scores of q are equal, nonzero and highest.
CreativeAnalysisTie(q) ==
    LET s == ScoreTable[q]
    IN  /\ s["creative"] = s["analysis"]
        /\ s["creative"] > 0
        /\ s["creative"] = MaxScore(s)

\* The crafted inputs: the commands whose creative and analysis scores tie.
TieTexts == { q \in Texts : CreativeAnalysisTie(q) }

\* router.choose_model(q) on a crafted input, called on a constructed
\* assistant.  memo either takes this call or keeps the earlier call it
\* holds, counting the calls made since.
RouterCall ==
    /\ pc = "idle"
    /\ \E q \in TieTexts :
        LET r == choose_model(q)
        IN  /\ query' = q
            /\ task_type' = r.task_type
            /\ model' = r.model
            /\ \/ memo' = [set |-> TRUE, text |-> q, task_type |-> r.task_type, age |-> 0]
               \/ /\ memo.set
                  /\ memo' = [memo EXCEPT !.age = IF @ < MaxCallsApart THEN @ + 1 ELSE @]
    /\ UNCHANGED <<pc, probe, available_models, router_patterns, models, chains,
                   invoked, result>>
    /\ UNCHANGED <<fileVars, runVars>>

----------------------------------------------------------------------------
(* Specifications *)

Init ==
    /\ pc = "start"
    /\ probe = "none"
    /\ available_models = {}
    /\ router_patterns = NoPatterns
    /\ models = NoModels
    /\ chains = NoModels
    /\ query = <<>>
    /\ task_type = "none"
    /\ model = Unbound
    /\ invoked = <<>>
    /\ result = NoResult
    /\ memo = NoMemo
    /\ clock = 0
    /\ scripts = <<>>
    /\ ncmd = 0
    /\ command = NoCommand
    /\ events = <<>>
    /\ audio_counter = 0
    /\ audio_names = <<>>
    /\ spoken = NoSpeech
    /\ calls = <<>>
    /\ cleanups = 0

Next ==
    \/ Construct
    \/ ProcessQuery
    \/ ChainRun
    \/ FallbackRun
    \/ QueryDone
    \/ SetupModels
    \/ ProcessCommand
    \/ CodeInvoke
    \/ ChatInvoke
    \/ ChatFallback
    \/ CommandDone

\* Either program: the assistant of multiagent.py is constructed and handles
\* queries, or the agent of main.py sets its models up and handles commands.
Spec == Init /\ [][Next]_vars

NextRouter == Construct \/ RouterCall

\* The router alone: an assistant is constructed, then choose_model is
\* called any number of times on crafted inputs.
SpecRouter == Init /\ [][NextRouter]_vars

NextRun ==
    \/ SetupModels
    \/ ProcessCommand
    \/ CodeInvoke
    \/ ChatInvoke
    \/ ChatFallback
    \/ CommandDone
    \/ RunStart
    \/ RunListen
    \/ ListenAttempt
    \/ RunDispatch
    \/ RunSpeakResponse
    \/ SpeakAttempt
    \/ SpokeReturn
    \/ Interrupt
    \/ RunError
    \/ Cleanup
    \/ SimpleRunStart
    \/ SimpleSpeak
    \/ SimpleListen
    \/ SimpleDispatch
    \/ SimplePost

\* Either voice program: the agent of main.py handles commands handed to
\* process_command and then runs its loop, or the agent of multiagent.py runs
\* its loop.
SpecRun == Init /\ [][NextRun]_vars


----------------------------------------------------------------------------
(* Properties *)

\* The positions of an assistant that was constructed.
AssistantPcs == {"idle", "chain_run", "fallback_run", "returned", "raised"}

\* The positions of the agent of main.py.
MainPcs == {"main_idle", "main_code", "main_chat", "main_chat_fallback", "main_returned"}

\* process_query holds the router's decision for `query`.
Chose == pc \in {"chain_run", "fallback_run", "returned", "raised"}

\* The command has returned or raised.
Finished == pc \in {"returned", "raised", "main_returned"}

\* The categories that share the highest score.
Tied(s) == { c \in CategorySet : s[c] = MaxScore(s) }

\* C1: when two or more categories tie for the highest nonzero count,
\* choose_model returns chat if chat is among them, and otherwise creative
\* or analysis, never code.
TieBreakPriority ==
    LET s == ScoreTable[query]
    IN  (Chose /\ MaxScore(s) > 0 /\ Cardinality(Tied(s)) >= 2) =>
            IF "chat" \in Tied(s)
            THEN task_type = "chat"
            ELSE task_type \in Tied(s) \ {"code"}

\* C2: within one command (process_query, process_command) no model
\* capability is invoked twice.
NoRepeatedInvocation ==
    \A i, j \in DOMAIN invoked : i < j => invoked[i].cap # invoked[j].cap

\* The route of a category: its primary role, then the other role when that
\* is another capability.
PrimaryRole(cat) == IF cat = "code" THEN "code" ELSE "chat"

OtherRole(r) == IF r = "code" THEN "chat" ELSE "code"

Route(cat) ==
    IF models[OtherRole(PrimaryRole(cat))] # models[PrimaryRole(cat)]
    THEN <<PrimaryRole(cat), OtherRole(PrimaryRole(cat))>>
    ELSE <<PrimaryRole(cat)>>

\* C3: when every invocation of a query fails, process_query fails after
\* exactly as many invocations as the route of the category has roles.
ExhaustionAfterRouteLength ==
    (pc \in {"returned", "raised"} /\ \A i \in DOMAIN invoked : ~invoked[i].ok) =>
        /\ pc = "raised"
        /\ Len(invoked) = Len(Route(task_type))

\* The role the command is sent to first.
CommandRole ==
    IF pc \in MainPcs
    THEN (IF is_code_query(query) THEN "code" ELSE "chat")
    ELSE PrimaryRole(task_type)

\* C4: after a failed primary invocation the next invocation is on the other
\* role when that is a different capability, and there is no next
\* invocation when the other role is bound to the primary's capability.
FallbackToOtherRole ==
    (Len(invoked) >= 1 /\ ~invoked[1].ok) =>
        LET other == models[OtherRole(CommandRole)]
        IN  IF other # invoked[1].cap
            THEN /\ Len(invoked) >= 2 => invoked[2].cap = other
                 /\ Finished => Len(invoked) >= 2
            ELSE Len(invoked) = 1

\* C5: a query none of the four patterns matches, the empty string included,
\* is classified chat and given the chat model.
ZeroScoreDefaultsToChat ==
    (Chose /\ \A c \in CategorySet : ScoreTable[query][c] = 0) =>
        /\ task_type = "chat"
        /\ model = models["chat"]
        /\ model # Unbound

ZeroScoreWitness ==
    /\ pc = "chain_run"
    /\ query = <<>>
    /\ task_type = "chat"
    /\ model = models["chat"]

\* C6: a category with the strictly highest count is the one returned, with
\* the model of the code role for code and of the chat role for chat,
\* creative and analysis; where the two roles have different models, the
\* model returned is the code model exactly when the category is code.
StrictMaxIsChosen ==
    LET s == ScoreTable[query]
    IN  Chose =>
            \A c \in CategorySet :
                (\A d \in CategorySet \ {c} : s[d] < s[c]) =>
                    /\ task_type = c
                    /\ model = models[IF c = "code" THEN "code" ELSE "chat"]
                    /\ models["code"] # models["chat"] =>
                            (model = models["code"] <=> c = "code")

StrictMaxWitness ==
    /\ pc = "chain_run"
    /\ ScoreTable[query]["code"] > ScoreTable[query]["chat"]
    /\ ScoreTable[query]["chat"] > 0
    /\ task_type = "code"
    /\ model = CODELLAMA
    /\ models["chat"] # CODELLAMA

GracefulDowngrade ==
    (pc \in AssistantPcs /\ CODELLAMA \notin available_models) =>
        /\ models["code"] = models["chat"]
        /\ models["code"] # Unbound
        /\ chains["code"] = models["chat"]
        /\ (task_type = "code" /\ Len(invoked) >= 1) =>
                /\ invoked[1].cap = models["chat"]
                /\ invoked[1].ok =>
                        /\ pc = "returned"
                        /\ result = Response(models["chat"], 1)

DowngradeWitness ==
    /\ pc = "returned"
    /\ CODELLAMA \notin available_models
    /\ task_type = "code"
    /\ result = Response(models["chat"], 1)

\* None of the three chat models is listed.
NoChatModel == available_models \cap {MISTRAL, NEURAL_CHAT, LLAMA2} = {}

\* C9: when no chat model is available, a failed probe included, the
\* construction fails and no query is handled; an assistant that was
\* constructed has both roles bound.
NoChatModelNoAssistant ==
    /\ probe \in {"bad_status", "exception"} => available_models = {}
    /\ (probe # "none" /\ NoChatModel) =>
            /\ pc = "init_failed"
            /\ models = NoModels
            /\ invoked = <<>>
            /\ result = NoResult
    /\ pc \in AssistantPcs =>
            /\ models["chat"] # Unbound
            /\ models["code"] # Unbound

ProbeFailedWitness ==
    /\ pc = "init_failed"
    /\ probe = "exception"
    /\ available_models = {}

\* C10: an invocation that succeeds is the last one of its command, and the
\* command returns the response of that invocation.
SuccessIsReturned ==
    \A i \in DOMAIN invoked :
        invoked[i].ok =>
            /\ i = Len(invoked)
            /\ Finished =>
                    /\ result.kind = "response"
                    /\ result.cap = invoked[i].cap
                    /\ result.attempt = i

\* The kinds of the steps of a call, in order.
Kinds(evs) == [i \in DOMAIN evs |-> evs[i].kind]

\* C11: listen makes at most 3 capture attempts; every kind of failure
\* before the last attempt is followed by the delay and another attempt;
\* the first transcription ends the call and is its value; after 3 failures
\* the call returns None; the delay comes only between two attempts.
ListenRetryContract ==
    pc \in {"listen", "listened"} =>
        LET n == Len(events)
            before(i) == Attempts(SubSeq(events, 1, i))
        IN  /\ Attempts(events) <= 3
            /\ \A i \in 1..n :
                 /\ events[i].kind \in CaptureSuccesses =>
                      i = n /\ pc = "listened" /\ ~command.none
                 /\ events[i].kind \in CaptureFailures /\ before(i) < 3 =>
                      /\ i < n
                      /\ events[i + 1].kind = "sleep"
                      /\ pc = "listen" \/ i + 1 < n
                 /\ events[i].kind = "sleep" =>
                      /\ i > 1
                      /\ events[i - 1].kind \in CaptureFailures
                      /\ before(i) < 3
            /\ pc = "listened" =>
                 /\ n > 0
                 /\ command.none <=>
                      Attempts(events) = 3 /\ events[n].kind \in CaptureFailures
                 /\ events[n].kind # "sleep"
            /\ pc = "listen" =>
                 /\ Attempts(events) < 3
                 /\ n > 0 => events[n].kind = "sleep"

\* listen has returned None after a silence, an unintelligible capture and
\* a transport failure.
ListenExhaustedWitness ==
    /\ pc = "listened"
    /\ command.none
    /\ Kinds(events) =
         <<"no_speech", "sleep", "unintelligible", "sleep", "request_error">>

\* C12: speak makes at most 3 synthesis attempts, none after a successful
\* one, and returns to its caller after three failed ones; the text is
\* printed exactly once per call, before any attempt.
SpeakRetryContract ==
    pc \in {"speak", "spoke"} =>
        LET n == Len(events)
            prints == { i \in 1..n : events[i].kind = "print" }
        IN  /\ prints = {1}
            /\ Attempts(events) <= 3
            /\ \A i \in 1..n : events[i].kind = "synth_ok" => i = n /\ pc = "spoke"
            /\ pc = "spoke" =>
                 \/ events[n].kind = "synth_ok"
                 \/ Attempts(events) = 3 /\ events[n].kind = "synth_failed"
            /\ pc = "speak" =>
                 /\ Attempts(events) < 3
                 /\ \A i \in 1..n : events[i].kind # "synth_ok"

\* speak has returned to run after three failed syntheses of a response.
SpeakExhaustedWitness ==
    /\ pc = "spoke"
    /\ spoken.what = "response"
    /\ Kinds(events) =
         <<"print", "synth_failed", "sleep", "synth_failed", "sleep", "synth_failed">>

\* Every invocation made for the command at hand has failed.
AllInvocationsFailed ==
    /\ invoked # <<>>
    /\ \A i \in DOMAIN invoked : ~invoked[i].ok

\* C13: neither run loop ends because a capture, a model invocation or a
\* synthesis failed: no exception leaves run, the loop is left only by an
\* exit command, an interrupt or a failure of the text channel, and a turn
\* of the loop in which every capture attempt or every invocation failed
\* has reported a message and is back at the top of the loop.
LoopSurvivesFailures ==
    /\ ~(pc = "sa_crashed" /\ ncmd > 0)
    /\ pc \in {"cleanup", "run_done", "run_interrupted"} =>
         calls[1] \in {"interrupt", "runtime_error"} \/ spoken.what = "farewell"
    /\ pc = "run_loop" /\ events # <<>> /\ Kinds(events)[1] \in CaptureFailures =>
         calls = <<"print_retry">>
    /\ pc \in {"run_loop", "sa_loop"} /\ AllInvocationsFailed =>
         /\ result.kind = "message"
         /\ spoken.res = result
         /\ Kinds(events)[1] = "print"

\* The script writes made for the command at hand.
ScriptsOfCommand == { i \in DOMAIN scripts : scripts[i].cmd = ncmd }

\* A code command has been answered by process_command.
CodeCommandReturned ==
    /\ pc = "main_returned"
    /\ query # <<>>
    /\ is_code_query(query)

\* C14: when the code model's response has a python block and writing the
\* script fails, process_command still returns the model's response.
ArtifactFailureKeepsResponse ==
    CodeCommandReturned
      /\ invoked[1].resp = "block"
      /\ (\E i \in ScriptsOfCommand : ~scripts[i].ok)
    => /\ result.kind = "response"
       /\ result.cap = invoked[1].cap
       /\ result.attempt = 1

\* process_command was handed the empty command.
EmptyCommandReturned == pc = "main_returned" /\ query = <<>>

\* run is back at the top of its loop with nothing usable from listen.
EmptyCommandInRun ==
    /\ pc = "run_loop"
    /\ calls[1] # "speak_greeting"
    /\ command.none \/ command.text = <<>>

\* C15: an empty or missing command is answered with the "I didn't catch
\* that" message and no model is invoked for it, in process_command and in
\* the run loop around it.
EmptyCommandDidntCatch ==
    /\ EmptyCommandReturned =>
         result = Message("didnt_catch") /\ invoked = <<>>
    /\ EmptyCommandInRun =>
         /\ spoken.chars = FixedChars["didnt_catch"]
         /\ invoked = <<>>

\* C15, amended: process_command answers an empty command with the "I
\* didn't catch that" message and invokes no model; run does not hand an
\* empty or missing command to process_command: it prints "Please try
\* speaking again.", speaks nothing, invokes no model and goes back to the
\* top of its loop.
EmptyCommandRejected ==
    /\ EmptyCommandReturned =>
         result = Message("didnt_catch") /\ invoked = <<>>
    /\ EmptyCommandInRun =>
         /\ calls = <<"print_retry">>
         /\ spoken = NoSpeech
         /\ result = NoResult
         /\ invoked = <<>>

\* run has met a capture whose three attempts failed.
ExhaustedCaptureInRunWitness ==
    /\ EmptyCommandInRun
    /\ command.none
    /\ Attempts(events) = 3
    /\ calls = <<"print_retry">>

\* Where the loop of multiagent.py's MultiAgent can be.
SimplePcs == {"sa_speak", "sa_loop", "sa_listened", "sa_post", "sa_done", "sa_crashed"}

\* The speak call at hand has come to its end.
SpeakFinished ==
    LET n == Len(events)
    IN  /\ n > 0
        /\ \/ events[n].kind \in {"synth_ok", "said"}
           \/ events[n].kind = "synth_failed" /\ Attempts(events) = 3

\* C16: once a captured command holds an exit phrase, run speaks the
\* farewell and leaves its loop: it is never again at the top of the loop
\* or in a capture, and no model is invoked for the command, code keyword or
\* not.  Both run loops.
ExitEndsRun ==
    /\ pc \notin SimplePcs /\ ~command.none /\ is_exit(command.text) =>
         /\ pc \in {"listened", "speak", "spoke", "cleanup", "run_done",
                    "run_interrupted"}
         /\ invoked = <<>>
         /\ result = NoResult
         /\ pc # "listened" =>
              /\ calls[1] = "speak_farewell"
              /\ spoken.what = "farewell"
              /\ spoken.chars = FixedChars["farewell"]
              /\ events[1].kind = "print"
         /\ pc \in {"cleanup", "run_done", "run_interrupted"} => SpeakFinished
    /\ pc \in SimplePcs /\ ~command.none /\ simple_is_exit(command.text) =>
         /\ pc \in {"sa_listened", "sa_speak", "sa_done", "sa_crashed"}
         /\ invoked = <<>>
         /\ result = NoResult
         /\ pc # "sa_listened" =>
              /\ calls = <<"speak_farewell">>
              /\ spoken.what = "farewell"
              /\ spoken.chars = FixedChars["farewell"]
         /\ pc = "sa_done" => SpeakFinished /\ events[1].kind = "print"

\* run has ended after a command with a code keyword and an exit phrase.
ExitWithCodeKeywordWitness ==
    /\ pc = "run_done"
    /\ command = [none |-> FALSE,
                  text |-> <<"w", "r", "i", "t", "e", " ", "e", "x", "i", "t">>]
    /\ calls[1] = "speak_farewell"
    /\ is_code_query(command.text)

\* C17: within a session no two synthesis attempts use the same
\* speech_<n>.mp3 name, and no two commands that each write a script use the
\* same generated_script_<timestamp>.py name.
UniqueArtifactNames ==
    /\ \A i, j \in DOMAIN audio_names :
         i # j => audio_names[i] # audio_names[j]
    /\ \A i, j \in DOMAIN scripts :
         scripts[i].cmd # scripts[j].cmd /\ scripts[i].ok /\ scripts[j].ok =>
             scripts[i].name # scripts[j].name

\* A code command has been answered and its invocation had succeeded.
CodeInvocationSucceeded == CodeCommandReturned /\ invoked[1].ok

\* The model response followed by the reference to script number name.
SavedScriptResponse(name) ==
    [Response(invoked[1].cap, 1) EXCEPT !.msg = "saved_script", !.script = name]

\* C18: for a code command whose invocation succeeds, a script is written
\* if and only if the response holds a python block; at most one is written,
\* with the first block; and when one is written the returned text is the
\* response followed by the reference to that script's name.
ScriptIffBlock ==
    CodeInvocationSucceeded =>
        LET written == { i \in ScriptsOfCommand : scripts[i].ok }
        IN  /\ written # {} <=> invoked[1].resp = "block"
            /\ Cardinality(written) <= 1
            /\ \A i \in written :
                 /\ scripts[i].block = 1
                 /\ result = SavedScriptResponse(scripts[i].name)

\* C18, amended: for a code command whose invocation succeeds, the write of
\* a script is attempted if and only if the response holds a python block,
\* at most once, with the first block; when the write succeeds the returned
\* text is the response followed by the reference to that script's name;
\* when it fails no script is written and none is referred to; without a
\* block the response is returned as it is.
ScriptAttemptedIffBlock ==
    CodeInvocationSucceeded =>
        /\ ScriptsOfCommand # {} <=> invoked[1].resp = "block"
        /\ Cardinality(ScriptsOfCommand) <= 1
        /\ \A i \in ScriptsOfCommand :
             /\ scripts[i].block = 1
             /\ scripts[i].ok => result = SavedScriptResponse(scripts[i].name)
             /\ ~scripts[i].ok => result.script = NoScript
        /\ ScriptsOfCommand = {} => result = Response(invoked[1].cap, 1)

\* A second code command of the session has had its script written.
SecondScriptWitness ==
    /\ CodeInvocationSucceeded
    /\ Len(scripts) = 2
    /\ scripts[1].ok /\ scripts[2].ok
    /\ scripts[2].cmd = 2
    /\ result.script = scripts[2].name

\* run holds a command that is neither empty nor an exit command.
ProcessedCommand ==
    /\ ~command.none
    /\ command.text # <<>>
    /\ ~is_exit(command.text)

\* C19: run is strictly sequential: a capture is under way only when no
\* processing and no synthesis is; and when run is back at the top of its
\* loop, a captured command that is neither empty nor an exit command has
\* had exactly one process_command call and then exactly one speak call,
\* with the result of that call, all of whose attempts are over.
SequentialPipeline ==
    /\ pc \in {"listen", "listened"} =>
         /\ calls = <<>>
         /\ spoken = NoSpeech
         /\ invoked = <<>>
         /\ result = NoResult
    /\ pc \in {"main_code", "main_chat", "main_chat_fallback", "main_returned"}
         /\ InRun =>
         /\ ProcessedCommand
         /\ calls = <<"process_command">>
         /\ query = command.text
         /\ spoken = NoSpeech
    /\ pc \in {"speak", "spoke"} /\ spoken.what = "response" =>
         /\ ProcessedCommand
         /\ calls = <<"process_command", "speak">>
         /\ result.kind \in {"response", "message"}
         /\ spoken.res = result
    /\ pc = "run_loop" /\ ProcessedCommand =>
         /\ calls = <<"process_command", "speak">>
         /\ result.kind \in {"response", "message"}
         /\ spoken.what = "response"
         /\ spoken.res = result
         /\ SpeakFinished

\* The second command of a session has been processed and spoken, the
\* synthesis having taken all of its attempts.
SecondCommandSpokenWitness ==
    /\ pc = "run_loop"
    /\ ncmd = 2
    /\ ProcessedCommand
    /\ calls = <<"process_command", "speak">>
    /\ Attempts(events) = 3

\* C20: every synthesis attempt of speak uses the locale 'fa' when the text
\* holds a non-ASCII character and 'en' otherwise, mixed and empty texts
\* included.
LocaleByNonAscii ==
    pc \in {"speak", "spoke"} =>
        \A i \in DOMAIN events :
            events[i].kind \in {"synth_ok", "synth_failed"} =>
                events[i].lang =
                    IF \E j \in DOMAIN spoken.chars : spoken.chars[j] >= 128
                    THEN "fa" ELSE "en"

\* An assistant exists: __init__ has returned.
Constructed == pc \in AssistantPcs

\* C21: once the assistant is constructed, no step of choose_model or of
\* process_query, whether the query is answered, falls back or raises,
\* changes the model bound to the chat or to the code role, the models
\* behind the chains or the pattern table; and every decision of
\* choose_model applies the one category-to-role table (code to the code
\* role, every other category to the chat role).
RoleMapReadOnly ==
    [][ Constructed =>
          /\ models' = models
          /\ chains' = chains
          /\ router_patterns' = router_patterns
          /\ router_patterns' = task_patterns
          /\ Chose' => model' = models'[PrimaryRole(task_type')] ]_vars

\* A code query has failed on both chains of an assistant with two models,
\* and the bindings are those of the construction.
BindingsAfterFailureWitness ==
    /\ pc = "raised"
    /\ Len(invoked) = 2
    /\ models = [chat |-> MISTRAL, code |-> CODELLAMA]
    /\ chains = models
    /\ router_patterns = task_patterns

\* C22: in process_query the chain run first is the chain of the role the
\* router decided on, and the model behind it is the model choose_model
\* returned for the query: code queries run the code chain, every other
\* query the chat chain.
ChainAgreesWithRouter ==
    Chose =>
        /\ chain_for(task_type) = model
        /\ chain_for(task_type) = chains[PrimaryRole(task_type)]
        /\ invoked # <<>> => invoked[1].cap = model

\* A creative query, for which chains has no key, has been answered by the
\* chat chain of an assistant whose two roles are different models.
DefaultChainWitness ==
    /\ pc = "returned"
    /\ task_type = "creative"
    /\ models["chat"] # models["code"]
    /\ Len(invoked) = 1
    /\ invoked[1].cap = models["chat"]
    /\ model = models["chat"]

\* The command, in lower case, holds one of the code keywords.
HasCodeKeyword(q) ==
    \E k \in 1..Len(code_keywords) : Contains(code_keywords[k], lower(q))

\* What process_command owes a command that reaches a model: every
\* invocation is made on the model of one role, the code role exactly for a
\* command with a code keyword; a code command has one invocation, and
\* when that fails the fixed code-generation message is returned.
OneRoleInvoked ==
    LET role == IF HasCodeKeyword(query) THEN "code" ELSE "chat"
    IN  /\ invoked # <<>>
        /\ \A i \in DOMAIN invoked : invoked[i].cap = models[role]
        /\ role = "code" =>
             /\ Len(invoked) = 1
             /\ ~invoked[1].ok => result = Message("code_error")

\* C23: process_command sends a command to exactly one model role, the
\* code model if and only if the command holds a code keyword and the chat
\* model otherwise; when the code invocation fails no other model is
\* invoked and the fixed code-generation message is returned; and the call
\* returns a string, never an exception.
OneRolePerCommand ==
    pc = "main_returned" =>
        /\ OneRoleInvoked
        /\ result.kind \in {"response", "message"}

\* C23, amended: the above for every command that is not empty; an empty
\* command is sent to no model and is answered with the fixed "I didn't
\* catch that" message.
OneRolePerNonEmptyCommand ==
    pc = "main_returned" =>
        /\ query # <<>> => OneRoleInvoked
        /\ query = <<>> => invoked = <<>> /\ result = Message("didnt_catch")
        /\ result.kind \in {"response", "message"}

\* A command with a code keyword in upper case has failed on the code model.
CodeFailureWitness ==
    /\ pc = "main_returned"
    /\ query = <<"D", "e", "b", "u", "g">>
    /\ invoked = <<[cap |-> CODELLAMA, ok |-> FALSE, resp |-> "none"]>>
    /\ result = Message("code_error")

\* run has left its try block for good.
RunEnded == pc \in {"cleanup", "run_done", "run_interrupted"}

\* C24: whichever way run leaves its loop (an exit or quit command, a
\* keyboard interrupt, an unexpected error), cleanup is called exactly once:
\* not before the loop is left, once when run is over; and an error inside
\* cleanup is logged there, after which run returns.
OneCleanupPerRun ==
    /\ cleanups <= 1
    /\ ~RunEnded => cleanups = 0
    /\ pc = "cleanup" =>
         /\ cleanups = 0
         /\ calls[1] \in {"speak_farewell", "interrupt", "runtime_error"}
    /\ pc \in {"run_done", "run_interrupted"} =>
         /\ cleanups = 1
         /\ calls[1] \in {"speak_farewell", "interrupt", "runtime_error"}
         /\ Len(calls) = 2
         /\ calls[2] \in CleanupOutcomes
    /\ RunEnded /\ calls[Len(calls)] \in {"cleanup", "cleanup_error"} =>
         pc = "run_done"

\* An unexpected error has ended the loop, and cleanup has met an error of
\* its own.
CleanupErrorAfterErrorWitness ==
    /\ pc = "run_done"
    /\ calls = <<"runtime_error", "cleanup_error">>
    /\ cleanups = 1

====
